---- MODULE Spec2Model ----
(***************************************************************************)
(* State-machine model of autogluon.cloud's CloudPredictor                 *)
(* (src/cloud/src/autogluon/cloud/predictor/cloud_predictor.py).           *)
(*                                                                         *)
(* One action per public method.  An action is the whole call: it ends     *)
(* either with the method returning or with the exception it raises, and   *)
(* `last` records the call (its arguments, what it raised, the external    *)
(* effects it issued in order, what it returned).  The remote service, the *)
(* object store and the filesystem are collaborators: each of their calls  *)
(* either succeeds or raises, chosen by the `fail` input of the action.    *)
(* The job handles (SageMakerFitJob, SageMakerBatchTransformationJob) and  *)
(* the registry class (MostRecentInsertedOrderedDict) live outside         *)
(* cloud_predictor.py; they are modelled from their documented contract.   *)
(***************************************************************************)
EXTENDS Integers, Sequences, FiniteSets, TLC

VARIABLES
    predictor_type,        \* self.predictor_type (None for the base class)
    sagemaker_session,     \* self.sagemaker_session
    region,                \* self._region
    endpoint,              \* self.endpoint
    endpoint_saved,        \* self._endpoint_saved ("Absent": attribute not set)
    fit_job,               \* self._fit_job
    batch_transform_jobs,  \* self._batch_transform_jobs, in insertion order
    snapshot,              \* the pickle file written by save()
    last,                  \* record of the most recent call
    ncalls,                \* number of calls made so far
    deployed,              \* history: endpoint stored by the last returned deploy, reset by detach/cleanup calls
    returned_jobs,         \* history: job names of the predict calls that returned, in call order
    mlp                    \* an MLP (automm/models/mlp.py): its arguments, its layers, a forward pass

vars == <<predictor_type, sagemaker_session, region, endpoint, endpoint_saved,
          fit_job, batch_transform_jobs, snapshot, last, ncalls, deployed,
          returned_jobs, mlp>>

\* the fields of the instance itself
self == <<predictor_type, sagemaker_session, region, endpoint, endpoint_saved,
          fit_job, batch_transform_jobs>>

----------------------------------------------------------------------------
\* Bounds of the model.

\* calls explored per behaviour
MaxCalls == 3

\* predict calls that return per behaviour
MaxPredicts == 2

\* largest feature dimension of an MLP
MaxFeatures == 3

\* largest num_layers of an MLP
MaxLayers == 2

----------------------------------------------------------------------------
\* Values.

None == "None"

Absent == "Absent"

\* the session created by __init__ and the one created by load()
InitSession == "S0"

FreshSession == "S1"

InitRegion == "R0"

FreshRegion == "R1"

\* session of an endpoint returned by model.deploy / handed in by the caller
ModelSession == "Sm"

CallerSession == "Sx"

PredictorTypes == {None, "tabular"}

EndpointNames == {"ep1"}

\* sagemaker.utils.unique_name_from_base for the n-th call of this instance
GeneratedEndpointName(n) ==
    "sagemaker-autogluon-serving-trained-model-" \o ToString(n)

JobNames == {"jobA"}

NoEndpoint == [name |-> None, session |-> None]

JobStatuses == {"NotCreated", "InProgress", "Completed", "Failed", "Stopping", "Stopped"}

TerminalStatuses == {"Completed", "Failed", "Stopped"}

VALID_ACCEPT == {"application/x-parquet", "text/csv", "application/json"}

AcceptInputs == VALID_ACCEPT \cup {"image/png", ""}

NotLoaded ==
    [returned |-> FALSE, session |-> None, region |-> None, endpoint |-> NoEndpoint,
     endpoint_saved |-> Absent, fit_session |-> None, job_names |-> <<>>,
     job_sessions |-> <<>>]

NoSnapshot ==
    [exists |-> FALSE, endpoint_saved |-> Absent, job_names |-> <<>>,
     endpoint_at_save |-> None]

\* the record of a call: op, its arguments, the exception raised (None when it
\* returned), the external requests in the order issued (a request that raised
\* is the last one of a call that raised "IOFailure" or "RemoteError")
\* `again`: a fit call that directly follows a fit call that returned
\* `before`: for a fit call, the status of the fit job handle when it was made
Call(op, args, raised, effects) ==
    [op |-> op, args |-> args, raised |-> raised, effects |-> effects,
     again |-> (op = "fit" /\ last.op = "fit" /\ last.raised = None),
     before |-> IF op = "fit" THEN fit_job.status ELSE None,
     ret |-> None, job |-> None, job_id |-> 0, inputs |-> <<>>, prefix |-> None,
     ret_endpoint |-> NoEndpoint, loaded |-> NotLoaded]

\* a call that raised: the fields of the instance stay as they are
Raises(op, args, err, effects) ==
    /\ last' = Call(op, args, err, effects)
    /\ ncalls' = ncalls + 1
    /\ UNCHANGED <<self, snapshot, deployed, returned_jobs, mlp>>

Range(s) == {s[i] : i \in DOMAIN s}

----------------------------------------------------------------------------
\* CloudPredictor.__init__

\* no MLP under construction
NoMLP ==
    [pc |-> "none", in_features |-> 0, hidden_arg |-> 0, out_arg |-> 0,
     num_layers |-> 0, in_cur |-> 0, hidden_features |-> 0, out_features |-> 0,
     layers |-> <<>>, fc_out |-> [in_features |-> 0, out_features |-> 0],
     x |-> 0, k |-> 0]

Init ==
    /\ mlp = NoMLP
    /\ predictor_type \in PredictorTypes
    /\ sagemaker_session = InitSession
    /\ region = InitRegion
    /\ endpoint = NoEndpoint
    /\ endpoint_saved = Absent
    /\ fit_job = [status |-> "NotCreated", session |-> InitSession]
    /\ batch_transform_jobs = <<>>
    /\ snapshot = NoSnapshot
    /\ last = [op |-> "__init__", args |-> <<>>, raised |-> None, effects |-> <<>>,
               again |-> FALSE, before |-> None, ret |-> None, job |-> None, job_id |-> 0,
               inputs |-> <<>>, prefix |-> None, ret_endpoint |-> NoEndpoint,
               loaded |-> NotLoaded]
    /\ ncalls = 0
    /\ deployed = NoEndpoint
    /\ returned_jobs = <<>>

----------------------------------------------------------------------------
\* Job handles (contract of SageMakerFitJob / SageMakerBatchTransformationJob).

\* job.completed
completed(job) == job.status = "Completed"

\* job.get_output_path(): a location once Completed, nothing otherwise
get_output_path(job) == IF job.status = "Completed" THEN "s3" ELSE None

\* CloudPredictor.is_fit
is_fit == completed(fit_job)

\* statuses a running job can be polled in next
NextStatuses(s) ==
    CASE s = "InProgress" -> {"Completed", "Failed", "Stopping", "Stopped"}
      [] s = "Stopping" -> {"Stopped"}
      [] OTHER -> {}

\* the remote training job advances; the handle reads the live status
FitJobProgress ==
    /\ \E s \in NextStatuses(fit_job.status) :
          fit_job' = [fit_job EXCEPT !.status = s]
    /\ UNCHANGED <<predictor_type, sagemaker_session, region, endpoint,
                   endpoint_saved, batch_transform_jobs, snapshot, last, ncalls,
                   deployed, returned_jobs, mlp>>

----------------------------------------------------------------------------
\* fit

\* train_data / tuning_data: a DataFrame or local path ("local"), an S3 URL
\* ("s3"), not given (None; train_data "missing" from the fit args);
\* fv_ok: framework_version is a valid option; fail: the external request that
\* raises; wait=True returns once the job is terminal.  The staging
\* combinations are enumerated for wait=False calls, one for wait=True.
FitInputs ==
    {[train |-> "missing", tune |-> None, fv_ok |-> TRUE, fail |-> "none",
      wait |-> FALSE, outcome |-> "InProgress"]} \cup
    {[train |-> "local", tune |-> None, fv_ok |-> FALSE, fail |-> "none",
      wait |-> FALSE, outcome |-> "InProgress"]} \cup
    {i \in [train : {"local", "s3"}, tune : {None, "local", "s3"}, fv_ok : {TRUE},
            fail : {"none", "upload", "run"}, wait : BOOLEAN,
            outcome : {"InProgress", "Completed", "Failed"}] :
        /\ i.wait <=> i.outcome \in TerminalStatuses
        /\ i.wait => (i.train = "s3" /\ i.tune = None)
        /\ i.fail # "none" => (~i.wait /\ i.train = "local" /\ i.tune = None)}

\* _upload_fit_artifact that uploads the train data whatever it is
fit_uploads_always(train, tune) ==
    <<"upload_train">> \o
    (IF tune = "local" THEN <<"upload_tune">> ELSE <<>>) \o
    <<"upload_config">>

\* _upload_fit_artifact: the uploads it issues, in order
fit_uploads(train, tune) ==
    (IF train = "local" THEN <<"upload_train">> ELSE <<>>) \o
    (IF tune = "local" THEN <<"upload_tune">> ELSE <<>>) \o
    <<"upload_config">>

\* _upload_fit_artifact returns (train_input, tune_input, config_input); fit
\* builds the job's inputs from them
fit_inputs(train, tune) ==
    <<  <<"config", "cloud/utils/config.yaml">>,
        <<"train", IF train = "local" THEN "cloud/utils/train" ELSE "caller/train">>  >> \o
    (IF tune = None THEN <<>>
     ELSE << <<"tune", IF tune = "local" THEN "cloud/utils/tune" ELSE "caller/tune">> >>)

\* fit after its first assert
fit_staged(i) ==
    LET pre == <<"setup_bucket", "write_config">>
        ups == fit_uploads(i.train, i.tune)
        R(err, eff) == [raised |-> err, effects |-> eff, inputs |-> <<>>,
                        status |-> fit_job.status]
    IN  IF i.train = "missing" THEN R("KeyError", <<>>)
        ELSE IF ~i.fv_ok THEN R("InvalidArgument", <<>>)
        ELSE IF predictor_type = None THEN R("AssertionError", <<"setup_bucket">>)
        ELSE IF sagemaker_session = None THEN R("AttributeError", pre)
        ELSE IF i.fail = "upload" THEN R("IOFailure", pre \o <<Head(ups)>>)
        ELSE IF i.fail = "run"
        THEN R("RemoteError", pre \o ups \o <<"submit_training">>)
        ELSE [raised |-> None, effects |-> pre \o ups \o <<"submit_training">>,
              inputs |-> fit_inputs(i.train, i.tune), status |-> i.outcome]

\* fit without its first assert
fit_result_no_assert(i) == fit_staged(i)

\* fit that refuses a handle in any terminal state
fit_result_terminal_assert(i) ==
    IF fit_job.status \in TerminalStatuses
    THEN [raised |-> "PreconditionViolation", effects |-> <<>>, inputs |-> <<>>,
          status |-> fit_job.status]
    ELSE fit_staged(i)

fit_result(i) ==
    IF is_fit
    THEN [raised |-> "PreconditionViolation", effects |-> <<>>, inputs |-> <<>>,
          status |-> fit_job.status]
    ELSE fit_staged(i)

fit ==
    /\ ncalls < MaxCalls
    /\ \E i \in FitInputs :
          LET r == fit_result(i) IN
          /\ fit_job' = [fit_job EXCEPT !.status = r.status]
          /\ last' = [Call("fit", <<i.train, i.tune, i.wait>>, r.raised, r.effects)
                         EXCEPT !.inputs = r.inputs]
    /\ ncalls' = ncalls + 1
    /\ UNCHANGED <<predictor_type, sagemaker_session, region, endpoint,
                   endpoint_saved, batch_transform_jobs, snapshot, deployed,
                   returned_jobs, mlp>>

\* session of a handle built by SageMakerFitJob.attach
AttachedJobSession == "Sa"

attach_job ==
    /\ ncalls < MaxCalls
    /\ \E s \in {"InProgress", "Completed", "Failed", "missing"} :
          IF s = "missing"
          THEN /\ fit_job' = fit_job
               /\ last' = Call("attach_job", <<>>, "RemoteError", <<"describe_training">>)
          ELSE /\ fit_job' = [status |-> s, session |-> AttachedJobSession]
               /\ last' = Call("attach_job", <<>>, None, <<"describe_training">>)
    /\ ncalls' = ncalls + 1
    /\ UNCHANGED <<predictor_type, sagemaker_session, region, endpoint,
                   endpoint_saved, batch_transform_jobs, snapshot, deployed,
                   returned_jobs, mlp>>

get_fit_job_status ==
    /\ ncalls < MaxCalls
    /\ last' = [Call("get_fit_job_status", <<>>, None, <<>>)
                   EXCEPT !.ret = fit_job.status]
    /\ ncalls' = ncalls + 1
    /\ UNCHANGED <<self, snapshot, deployed, returned_jobs, mlp>>

\* _download_predictor: s3_path_to_bucket_prefix splits its argument as an S3
\* URL, which raises when the argument is None; then download_s3_file, then
\* unzip_file into save_path/AutogluonModels
download_predictor_result(path, fail) ==
    IF path = None
    THEN [raised |-> "AttributeError", effects |-> <<>>, ret |-> None]
    ELSE IF fail = "download"
    THEN [raised |-> "IOFailure", effects |-> <<"download">>, ret |-> None]
    ELSE [raised |-> None, effects |-> <<"download", "unzip">>,
          ret |-> "save_path/AutogluonModels"]

\* download_trained_predictor hands the fit job's output path, whatever it
\* is, to _download_predictor
download_trained_predictor ==
    /\ ncalls < MaxCalls
    /\ \E fail \in {"none", "download"} :
          LET r == download_predictor_result(get_output_path(fit_job), fail) IN
          last' = [Call("download_trained_predictor", <<>>, r.raised, r.effects)
                      EXCEPT !.ret = r.ret]
    /\ ncalls' = ncalls + 1
    /\ UNCHANGED <<self, snapshot, deployed, returned_jobs, mlp>>

----------------------------------------------------------------------------
\* deploy and predict_real_time

PredictorPaths == {None, "s3", "tarball", "not_tarball", "not_file"}

\* a deploy / predict that falls back to a default artifact location
resolve_predictor_path_guess(path) ==
    IF path = None THEN "s3" ELSE path

\* `if not predictor_path: predictor_path = self._fit_job.get_output_path()`
resolve_predictor_path(path) ==
    IF path = None THEN get_output_path(fit_job) ELSE path

\* _upload_predictor: what it raises, and whether it issues an upload
upload_predictor(path, session, fail) ==
    IF path = "s3" THEN [raised |-> None, effects |-> <<>>]
    ELSE IF path = "not_file" THEN [raised |-> "InvalidArtifact", effects |-> <<>>]
    ELSE IF path = "not_tarball" THEN [raised |-> "InvalidArtifact", effects |-> <<>>]
    ELSE IF session = None THEN [raised |-> "AttributeError", effects |-> <<>>]
    ELSE IF fail = "upload" THEN [raised |-> "IOFailure", effects |-> <<"upload_predictor">>]
    ELSE [raised |-> None, effects |-> <<"upload_predictor">>]

DeployInputs ==
    {i \in [path : PredictorPaths, endpoint_name : EndpointNames \cup {None},
            fv_ok : BOOLEAN, fail : {"none", "upload", "deploy"}] :
        /\ i.fail = "upload" => i.path = "tarball"
        /\ i.fail = "deploy" => i.path = "s3"
        /\ ~i.fv_ok => (i.fail = "none" /\ i.path = "s3")
        /\ (i.fail # "none" \/ ~i.fv_ok \/ i.path \in {"not_tarball", "not_file"})
              => i.endpoint_name = None}

\* deploy after its first assert
deploy_staged(i) ==
    LET path == resolve_predictor_path(i.path)
        up == upload_predictor(path, sagemaker_session, i.fail)
        \* line 469 formats the prefix from the endpoint_name argument
        pfx == IF up.effects # <<>> THEN i.endpoint_name ELSE None
        name == IF i.endpoint_name = None THEN GeneratedEndpointName(ncalls + 1)
                ELSE i.endpoint_name
        R(err, eff) == [raised |-> err, effects |-> eff, prefix |-> pfx,
                        endpoint |-> endpoint]
    IN  IF path = None THEN R("NoTrainedModel", <<>>)
        ELSE IF up.raised # None THEN R(up.raised, up.effects)
        ELSE IF ~i.fv_ok THEN R("InvalidArgument", up.effects)
        ELSE IF predictor_type = None THEN R("AssertionError", up.effects)
        ELSE IF i.fail = "deploy"
        THEN R("RemoteError", up.effects \o <<"deploy_endpoint">>)
        ELSE [raised |-> None, effects |-> up.effects \o <<"deploy_endpoint">>,
              prefix |-> pfx,
              endpoint |-> [name |-> name, session |-> ModelSession]]

\* deploy that stages the artifact before it looks at the endpoint slot
deploy_result_upload_first(i) ==
    IF endpoint # NoEndpoint
    THEN [raised |-> "PreconditionViolation",
          effects |-> IF i.path = None THEN <<>>
                      ELSE upload_predictor(i.path, sagemaker_session, "none").effects,
          prefix |-> None, endpoint |-> endpoint]
    ELSE deploy_staged(i)

deploy_result(i) ==
    IF endpoint # NoEndpoint
    THEN [raised |-> "PreconditionViolation", effects |-> <<>>, prefix |-> None,
          endpoint |-> endpoint]
    ELSE deploy_staged(i)

deploy ==
    /\ ncalls < MaxCalls
    /\ \E i \in DeployInputs :
          LET r == deploy_result(i) IN
          /\ endpoint' = r.endpoint
          /\ deployed' = IF r.raised = None THEN r.endpoint ELSE deployed
          /\ last' = [Call("deploy", <<i.path, i.endpoint_name>>, r.raised, r.effects)
                         EXCEPT !.prefix = r.prefix]
    /\ ncalls' = ncalls + 1
    /\ UNCHANGED <<predictor_type, sagemaker_session, region, endpoint_saved,
                   fit_job, batch_transform_jobs, snapshot, returned_jobs, mlp>>

\* the test_data / failure combinations are enumerated for accept "text/csv";
\* every other accept string comes with a path and no failing request
RealTimeInputs ==
    {i \in [accept : AcceptInputs, test_data : {"DataFrame", "path", "other"},
            fail : {"none", "load", "predict"}] :
        /\ i.fail = "load" => i.test_data = "path"
        /\ i.fail = "predict" => i.test_data = "DataFrame"
        /\ i.test_data = "other" => i.fail = "none"
        /\ i.accept # "text/csv" => (i.test_data = "path" /\ i.fail = "none")}

\* predict_real_time that accepts every accept string
predict_real_time_no_check(i) ==
    IF endpoint = NoEndpoint THEN [raised |-> "PreconditionViolation", effects |-> <<>>]
    ELSE LET load == IF i.test_data = "path" THEN <<"load_data">> ELSE <<>> IN
         IF i.fail = "load" THEN [raised |-> "IOFailure", effects |-> load]
         ELSE IF i.test_data = "other" THEN [raised |-> "BadTestData", effects |-> load]
         ELSE IF i.fail = "predict"
         THEN [raised |-> "RemoteError", effects |-> load \o <<"endpoint_predict">>]
         ELSE [raised |-> None, effects |-> load \o <<"endpoint_predict">>]

predict_real_time_result(i) ==
    IF endpoint = NoEndpoint THEN [raised |-> "PreconditionViolation", effects |-> <<>>]
    ELSE IF i.accept \notin VALID_ACCEPT
    THEN [raised |-> "InvalidArgument", effects |-> <<>>]
    ELSE LET load == IF i.test_data = "path" THEN <<"load_data">> ELSE <<>> IN
         IF i.fail = "load" THEN [raised |-> "IOFailure", effects |-> load]
         ELSE IF i.test_data = "other" THEN [raised |-> "BadTestData", effects |-> load]
         ELSE IF i.fail = "predict"
         THEN [raised |-> "RemoteError", effects |-> load \o <<"endpoint_predict">>]
         ELSE [raised |-> None, effects |-> load \o <<"endpoint_predict">>]

predict_real_time ==
    /\ ncalls < MaxCalls
    /\ \E i \in RealTimeInputs :
          LET r == predict_real_time_result(i) IN
          last' = [Call("predict_real_time", <<i.accept, i.test_data>>, r.raised,
                        r.effects)
                      EXCEPT !.ret = IF r.raised = None THEN "predictions" ELSE None]
    /\ ncalls' = ncalls + 1
    /\ UNCHANGED <<self, snapshot, deployed, returned_jobs, mlp>>

----------------------------------------------------------------------------
\* Endpoint lifecycle.

\* the argument of attach_endpoint: a name, an endpoint object the caller
\* built, the endpoint object the caller just got back from detach_endpoint,
\* or something else
AttachArgs ==
    {<<"str", n, None>> : n \in EndpointNames} \cup
    {<<"AutoGluonRealtimePredictor", n, CallerSession>> : n \in EndpointNames} \cup
    (IF last.op = "detach_endpoint" /\ last.raised = None
     THEN {<<"AutoGluonRealtimePredictor", last.ret_endpoint.name,
             last.ret_endpoint.session>>}
     ELSE {}) \cup
    {<<"other", None, None>>}

\* attach_endpoint without its first assert
attach_endpoint_no_assert(ep, session, arg) ==
    IF arg[1] = "str"
    THEN [raised |-> None, endpoint |-> [name |-> arg[2], session |-> session]]
    ELSE IF arg[1] = "AutoGluonRealtimePredictor"
    THEN [raised |-> None, endpoint |-> [name |-> arg[2], session |-> arg[3]]]
    ELSE [raised |-> "InvalidArgument", endpoint |-> ep]

\* the value attach_endpoint stores, or what it raises
attach_endpoint_result(ep, session, arg) ==
    IF ep # NoEndpoint
    THEN [raised |-> "PreconditionViolation", endpoint |-> ep]
    ELSE IF arg[1] = "str"
    THEN [raised |-> None, endpoint |-> [name |-> arg[2], session |-> session]]
    ELSE IF arg[1] = "AutoGluonRealtimePredictor"
    THEN [raised |-> None, endpoint |-> [name |-> arg[2], session |-> arg[3]]]
    ELSE [raised |-> "InvalidArgument", endpoint |-> ep]

attach_endpoint ==
    /\ ncalls < MaxCalls
    /\ \E arg \in AttachArgs :
          LET r == attach_endpoint_result(endpoint, sagemaker_session, arg) IN
          /\ endpoint' = r.endpoint
          /\ last' = Call("attach_endpoint", arg, r.raised, <<>>)
    /\ ncalls' = ncalls + 1
    /\ UNCHANGED <<predictor_type, sagemaker_session, region, endpoint_saved,
                   fit_job, batch_transform_jobs, snapshot, deployed, returned_jobs, mlp>>

\* detach_endpoint that hands the endpoint out and keeps it attached
detach_endpoint_result_keep(ep) ==
    IF ep = NoEndpoint
    THEN [raised |-> "PreconditionViolation", endpoint |-> ep, ret |-> NoEndpoint]
    ELSE [raised |-> None, endpoint |-> ep, ret |-> ep]

\* what detach_endpoint raises, the value it leaves in self.endpoint and the
\* endpoint it returns
detach_endpoint_result(ep) ==
    IF ep = NoEndpoint
    THEN [raised |-> "PreconditionViolation", endpoint |-> ep, ret |-> NoEndpoint]
    ELSE [raised |-> None, endpoint |-> NoEndpoint, ret |-> ep]

detach_endpoint ==
    /\ ncalls < MaxCalls
    /\ LET r == detach_endpoint_result(endpoint) IN
       /\ last' = [Call("detach_endpoint", <<>>, r.raised, <<>>)
                      EXCEPT !.ret_endpoint = r.ret]
       /\ endpoint' = r.endpoint
    /\ ncalls' = ncalls + 1
    /\ deployed' = NoEndpoint
    /\ UNCHANGED <<predictor_type, sagemaker_session, region, endpoint_saved,
                   fit_job, batch_transform_jobs, snapshot, returned_jobs, mlp>>

\* cleanup_deployment: _delete_endpoint_model, then _delete_endpoint
CleanupFails == {"none", "delete_model", "delete_endpoint"}

\* cleanup_deployment that clears the endpoint slot before the deletions
cleanup_deployment_result_detach_first(ep, fail) ==
    LET both == <<"delete_model", "delete_endpoint_with_config">> IN
    IF ep = NoEndpoint
    THEN [raised |-> "NoEndpoint", effects |-> <<>>, endpoint |-> ep]
    ELSE IF fail = "delete_model"
    THEN [raised |-> "RemoteError", effects |-> <<"delete_model">>,
          endpoint |-> NoEndpoint]
    ELSE IF fail = "delete_endpoint"
    THEN [raised |-> "RemoteError", effects |-> both, endpoint |-> NoEndpoint]
    ELSE [raised |-> None, effects |-> both, endpoint |-> NoEndpoint]

\* what cleanup_deployment raises, the delete requests it issues in order
\* (delete_endpoint is called with delete_endpoint_config=True) and the value
\* it leaves in self.endpoint
cleanup_deployment_result(ep, fail) ==
    LET both == <<"delete_model", "delete_endpoint_with_config">> IN
    IF ep = NoEndpoint
    THEN [raised |-> "NoEndpoint", effects |-> <<>>, endpoint |-> ep]
    ELSE IF fail = "delete_model"
    THEN [raised |-> "RemoteError", effects |-> <<"delete_model">>, endpoint |-> ep]
    ELSE IF fail = "delete_endpoint"
    THEN [raised |-> "RemoteError", effects |-> both, endpoint |-> ep]
    ELSE [raised |-> None, effects |-> both, endpoint |-> NoEndpoint]

cleanup_deployment ==
    /\ ncalls < MaxCalls
    /\ \E fail \in CleanupFails :
          LET r == cleanup_deployment_result(endpoint, fail) IN
          /\ last' = Call("cleanup_deployment", <<>>, r.raised, r.effects)
          /\ endpoint' = r.endpoint
    /\ ncalls' = ncalls + 1
    /\ deployed' = NoEndpoint
    /\ UNCHANGED <<predictor_type, sagemaker_session, region, endpoint_saved,
                   fit_job, batch_transform_jobs, snapshot, returned_jobs, mlp>>

----------------------------------------------------------------------------
\* The transform-job registry (contract of MostRecentInsertedOrderedDict, an
\* insertion-ordered dict) and the batch path.

NoJob == [name |-> None, id |-> 0, status |-> "NotCreated", session |-> None]

registry_keys(reg) == [k \in DOMAIN reg |-> reg[k].name]

\* reg.last: the most recently inserted key
registry_last(reg) == IF reg = <<>> THEN None ELSE reg[Len(reg)].name

\* reg.get(name, None)
registry_get(reg, name) ==
    IF \E k \in DOMAIN reg : reg[k].name = name
    THEN reg[CHOOSE k \in DOMAIN reg : reg[k].name = name]
    ELSE NoJob

\* reg[name] = job: a new key goes last, an existing key keeps its place and
\* takes the new value
registry_put(reg, job) ==
    IF \E k \in DOMAIN reg : reg[k].name = job.name
    THEN [k \in DOMAIN reg |-> IF reg[k].name = job.name THEN job ELSE reg[k]]
    ELSE Append(reg, job)

\* sagemaker.utils.unique_name_from_base for the n-th job of this instance
GeneratedJobName(n) == "ag-CloudPredictor-batch-transform-" \o ToString(n)

\* a remote transform job advances
TransformJobProgress ==
    /\ \E k \in DOMAIN batch_transform_jobs :
          \E s \in NextStatuses(batch_transform_jobs[k].status) :
             batch_transform_jobs' =
                 [batch_transform_jobs EXCEPT ![k].status = s]
    /\ UNCHANGED <<predictor_type, sagemaker_session, region, endpoint,
                   endpoint_saved, fit_job, snapshot, last, ncalls, deployed,
                   returned_jobs, mlp>>

\* a blocking predict and a predict with a job_name of the caller's are
\* enumerated with S3 arguments only
PredictInputs ==
    {i \in [path : PredictorPaths, test_data : {"local", "s3"},
            job_name : JobNames \cup {None}, fv_ok : BOOLEAN, out_ok : BOOLEAN,
            fail : {"none", "upload", "upload_data", "run"}, wait : BOOLEAN,
            outcome : {"InProgress", "Completed", "Failed"}] :
        /\ i.wait <=> i.outcome \in TerminalStatuses
        /\ i.fail = "upload" => i.path = "tarball"
        /\ i.fail = "upload_data" => i.test_data = "local"
        /\ i.test_data = "local" => i.path = "s3"
        /\ (i.fail # "none" \/ ~i.fv_ok \/ ~i.out_ok
              \/ i.path \in {"not_tarball", "not_file"}) =>
              (~i.wait /\ i.job_name = None)
        /\ (~i.fv_ok \/ ~i.out_ok \/ i.path \in {"not_tarball", "not_file"}) =>
              (i.fail = "none" /\ i.test_data = "s3")
        /\ ~i.fv_ok => (i.out_ok /\ i.path = "s3")
        /\ ~i.out_ok => i.path = "s3"
        /\ (i.wait \/ i.job_name # None) => (i.path = "s3" /\ i.test_data = "s3")}

\* the handle predict registers: the job_name argument, or a generated name
predict_job(i, outcome) ==
    [name |-> IF i.job_name = None THEN GeneratedJobName(Len(returned_jobs) + 1)
              ELSE i.job_name,
     id |-> Len(returned_jobs) + 1, status |-> outcome,
     session |-> sagemaker_session]

\* predict that submits the job and forgets to register the handle
predict_result_no_register(i) ==
    [raised |-> IF i.path = None /\ get_output_path(fit_job) = None
                THEN "NoTrainedModel" ELSE None,
     effects |-> <<"submit_transform">>,
     job |-> IF i.path = None /\ get_output_path(fit_job) = None
             THEN NoJob ELSE predict_job(i, i.outcome),
     registry |-> batch_transform_jobs]

\* predict that registers the handle before it submits the job
predict_result_register_first(i) ==
    LET path == resolve_predictor_path(i.path)
        up == upload_predictor(path, sagemaker_session, i.fail)
        data == IF i.test_data = "local" THEN <<"upload_data">> ELSE <<>>
        R(err, eff) == [raised |-> err, effects |-> eff, job |-> NoJob,
                        registry |-> batch_transform_jobs]
    IN  IF path = None THEN R("NoTrainedModel", <<>>)
        ELSE IF ~i.fv_ok THEN R("InvalidArgument", <<>>)
        ELSE IF ~i.out_ok THEN R("InvalidArgument", <<>>)
        ELSE IF up.raised # None THEN R(up.raised, up.effects)
        ELSE IF i.test_data = "local" /\ sagemaker_session = None
        THEN R("AttributeError", up.effects)
        ELSE IF i.fail = "upload_data" THEN R("IOFailure", up.effects \o data)
        ELSE IF predictor_type = None THEN R("AssertionError", up.effects \o data)
        ELSE [raised |-> IF i.fail = "run" THEN "RemoteError" ELSE None,
              effects |-> up.effects \o data \o <<"submit_transform">>,
              job |-> IF i.fail = "run" THEN NoJob ELSE predict_job(i, i.outcome),
              registry |-> registry_put(batch_transform_jobs,
                                        predict_job(i, i.outcome))]

predict_result(i) ==
    LET path == resolve_predictor_path(i.path)
        up == upload_predictor(path, sagemaker_session, i.fail)
        data == IF i.test_data = "local" THEN <<"upload_data">> ELSE <<>>
        R(err, eff) == [raised |-> err, effects |-> eff, job |-> NoJob,
                        registry |-> batch_transform_jobs]
    IN  IF path = None THEN R("NoTrainedModel", <<>>)
        ELSE IF ~i.fv_ok THEN R("InvalidArgument", <<>>)
        ELSE IF ~i.out_ok THEN R("InvalidArgument", <<>>)
        ELSE IF up.raised # None THEN R(up.raised, up.effects)
        ELSE IF i.test_data = "local" /\ sagemaker_session = None
        THEN R("AttributeError", up.effects)
        ELSE IF i.fail = "upload_data" THEN R("IOFailure", up.effects \o data)
        ELSE IF predictor_type = None THEN R("AssertionError", up.effects \o data)
        ELSE IF i.fail = "run"
        THEN R("RemoteError", up.effects \o data \o <<"submit_transform">>)
        ELSE [raised |-> None,
              effects |-> up.effects \o data \o <<"submit_transform">>,
              job |-> predict_job(i, i.outcome),
              registry |-> registry_put(batch_transform_jobs,
                                        predict_job(i, i.outcome))]

predict ==
    /\ ncalls < MaxCalls
    /\ \E i \in PredictInputs :
          LET r == predict_result(i) IN
          /\ r.raised = None => Len(returned_jobs) < MaxPredicts
          /\ batch_transform_jobs' = r.registry
          /\ returned_jobs' = IF r.raised = None
                              THEN Append(returned_jobs, r.job.name)
                              ELSE returned_jobs
          /\ last' = [Call("predict", <<i.path, i.test_data, i.job_name>>,
                           r.raised, r.effects)
                         EXCEPT !.job = r.job.name, !.job_id = r.job.id]
    /\ ncalls' = ncalls + 1
    /\ UNCHANGED <<predictor_type, sagemaker_session, region, endpoint,
                   endpoint_saved, fit_job, snapshot, deployed, mlp>>

\* job names a caller can pass: its own, or one it read from info()
JobNameArgs == JobNames \cup Range(registry_keys(batch_transform_jobs)) \cup {None}

\* `if not job_name: job_name = self._batch_transform_jobs.last`
resolve_job(job_name) ==
    IF job_name = None THEN registry_last(batch_transform_jobs) ELSE job_name

\* download_predict_results that creates the local directory before looking
\* the job up
download_predict_results_result_eager(job_name, dir_exists, fail) ==
    LET name == resolve_job(job_name)
        job == registry_get(batch_transform_jobs, name)
        R(err, eff) == [raised |-> err, effects |-> eff, job |-> job]
    IN  IF name = None \/ job = NoJob THEN R("NoSuchJob", <<"makedirs">>)
        ELSE IF get_output_path(job) = None THEN R("NoResultsAvailable", <<"makedirs">>)
        ELSE IF fail = "download" THEN R("IOFailure", <<"makedirs", "download">>)
        ELSE R(None, <<"makedirs", "download">>)

download_predict_results_result(job_name, dir_exists, fail) ==
    LET name == resolve_job(job_name)
        job == registry_get(batch_transform_jobs, name)
        mk == IF dir_exists THEN <<>> ELSE <<"makedirs">>
        R(err, eff) == [raised |-> err, effects |-> eff, job |-> job]
    IN  IF name = None THEN R("NoSuchJob", <<>>)
        ELSE IF job = NoJob THEN R("NoSuchJob", <<>>)
        ELSE IF get_output_path(job) = None THEN R("NoResultsAvailable", <<>>)
        ELSE IF fail = "download" THEN R("IOFailure", mk \o <<"download">>)
        ELSE R(None, mk \o <<"download">>)

download_predict_results ==
    /\ ncalls < MaxCalls
    /\ \E job_name \in JobNameArgs, dir_exists \in BOOLEAN,
          fail \in {"none", "download"} :
          /\ fail = "download" => dir_exists
          /\ LET r == download_predict_results_result(job_name, dir_exists, fail) IN
             last' = [Call("download_predict_results", <<job_name>>, r.raised, r.effects)
                         EXCEPT !.job = r.job.name, !.job_id = r.job.id]
    /\ ncalls' = ncalls + 1
    /\ UNCHANGED <<self, snapshot, deployed, returned_jobs, mlp>>

get_batch_transform_job_status ==
    /\ ncalls < MaxCalls
    /\ \E job_name \in JobNameArgs :
          LET job == registry_get(batch_transform_jobs, resolve_job(job_name)) IN
          last' = [Call("get_batch_transform_job_status", <<job_name>>, None, <<>>)
                      EXCEPT !.ret = job.status, !.job = job.name, !.job_id = job.id]
    /\ ncalls' = ncalls + 1
    /\ UNCHANGED <<self, snapshot, deployed, returned_jobs, mlp>>

----------------------------------------------------------------------------
\* save and load

\* the value of _endpoint_saved in the pickled object
pickled_endpoint_saved ==
    IF endpoint # NoEndpoint THEN endpoint.name ELSE endpoint_saved

save ==
    /\ ncalls < MaxCalls
    /\ \E fail \in {"none", "write"} :
          IF fail = "write"
          THEN \* save_pkl.save raises: lines 805-809 are not reached
               /\ sagemaker_session' = None
               /\ region' = None
               /\ endpoint' = NoEndpoint
               /\ endpoint_saved' = pickled_endpoint_saved
               /\ snapshot' = snapshot
               /\ last' = Call("save", <<>>, "IOFailure", <<"write_snapshot">>)
          ELSE /\ snapshot' = [exists |-> TRUE,
                               endpoint_saved |-> pickled_endpoint_saved,
                               job_names |-> registry_keys(batch_transform_jobs),
                               endpoint_at_save |-> endpoint.name]
               /\ endpoint_saved' = IF endpoint # NoEndpoint THEN None
                                    ELSE endpoint_saved
               /\ UNCHANGED <<sagemaker_session, region, endpoint>>
               /\ last' = Call("save", <<>>, None, <<"write_snapshot">>)
    /\ ncalls' = ncalls + 1
    /\ UNCHANGED <<predictor_type, fit_job, batch_transform_jobs, deployed,
                   returned_jobs, mlp>>

\* _load_jobs: `for job in self._batch_transform_jobs` runs over the keys of the
\* dict, which are strings: `job.session = ...` raises on the first one
load_jobs(job_names) ==
    IF job_names = <<>>
    THEN [raised |-> None, fit_session |-> FreshSession, job_sessions |-> <<>>]
    ELSE [raised |-> "AttributeError", fit_session |-> FreshSession,
          job_sessions |-> [k \in DOMAIN job_names |-> None]]

\* load, on the unpickled object
load_result(snap) ==
    LET jobs == load_jobs(snap.job_names)
        attach == snap.endpoint_saved \notin {Absent, None}
    IN  IF jobs.raised # None
        THEN [raised |-> jobs.raised, loaded |-> NotLoaded]
        ELSE [raised |-> None,
              loaded |->
                [returned |-> TRUE, session |-> FreshSession, region |-> FreshRegion,
                 endpoint |->
                    IF attach
                    THEN attach_endpoint_result(
                             NoEndpoint, FreshSession,
                             <<"str", snap.endpoint_saved, None>>).endpoint
                    ELSE NoEndpoint,
                 endpoint_saved |-> IF attach THEN None ELSE snap.endpoint_saved,
                 fit_session |-> jobs.fit_session,
                 job_names |-> snap.job_names,
                 job_sessions |-> jobs.job_sessions]]

load ==
    /\ ncalls < MaxCalls
    /\ \E path \in {"path", None} :
          IF path = None
          THEN last' = Call("load", <<path>>, "InvalidArgument", <<>>)
          ELSE IF ~snapshot.exists
          THEN last' = Call("load", <<path>>, "IOFailure", <<"read_snapshot">>)
          ELSE LET r == load_result(snapshot) IN
               last' = [Call("load", <<path>>, r.raised, <<"read_snapshot">>)
                           EXCEPT !.loaded = r.loaded]
    /\ ncalls' = ncalls + 1
    /\ UNCHANGED <<self, snapshot, deployed, returned_jobs, mlp>>

----------------------------------------------------------------------------
Next ==
    \/ FitJobProgress
    \/ TransformJobProgress
    \/ fit
    \/ attach_job
    \/ get_fit_job_status
    \/ download_trained_predictor
    \/ deploy
    \/ attach_endpoint
    \/ detach_endpoint
    \/ predict_real_time
    \/ predict
    \/ download_predict_results
    \/ get_batch_transform_job_status
    \/ cleanup_deployment
    \/ save
    \/ load

Spec == Init /\ [][Next]_vars

----------------------------------------------------------------------------
\* MLP (src/text/src/autogluon/text/automm/models/mlp.py): the construction
\* of the network, one step per statement group of MLP.__init__, and one
\* forward pass over a batch whose rows are in_features wide.  Only the widths
\* of the layers are modelled; normalization and activation keep their
\* defaults.

\* an Optional[int] argument left at None; `or` treats 0 the same way
NotProvided == 0

\* Python's `a or b` on integers
py_or(a, b) == IF a = NotProvided THEN b ELSE a

\* self.fc_out = None
NoLinear == [in_features |-> 0, out_features |-> 0]

\* nn.Linear(in_features, out_features), and the widths of a Unit
\* (norm = LayerNorm(in_features), fc = Linear(in_features, out_features))
Linear(in_features, out_features) ==
    [in_features |-> in_features, out_features |-> out_features]

\* a call MLP(in_features, hidden_features, out_features, num_layers) about to
\* run MLP.__init__, in a process that holds no CloudPredictor calls
InitMLP ==
    /\ predictor_type = None
    /\ sagemaker_session = InitSession
    /\ region = InitRegion
    /\ endpoint = NoEndpoint
    /\ endpoint_saved = Absent
    /\ fit_job = [status |-> "NotCreated", session |-> InitSession]
    /\ batch_transform_jobs = <<>>
    /\ snapshot = NoSnapshot
    /\ last = [op |-> "__init__", args |-> <<>>, raised |-> None, effects |-> <<>>,
               again |-> FALSE, before |-> None, ret |-> None, job |-> None,
               job_id |-> 0, inputs |-> <<>>, prefix |-> None,
               ret_endpoint |-> NoEndpoint, loaded |-> NotLoaded]
    /\ ncalls = 0
    /\ deployed = NoEndpoint
    /\ returned_jobs = <<>>
    /\ \E i \in 1..MaxFeatures, h, o \in {NotProvided} \cup 1..MaxFeatures,
          n \in 0..MaxLayers :
          mlp = [NoMLP EXCEPT !.pc = "new", !.in_features = i, !.hidden_arg = h,
                              !.out_arg = o, !.num_layers = n, !.in_cur = i]

\* the variables of the CloudPredictor model
cloud_vars ==
    <<predictor_type, sagemaker_session, region, endpoint, endpoint_saved,
      fit_job, batch_transform_jobs, snapshot, last, ncalls, deployed,
      returned_jobs>>

\* lines 91-94: the defaults of out_features and hidden_features
MLP_defaults ==
    /\ mlp.pc = "new"
    /\ mlp' = [mlp EXCEPT !.pc = "loop",
                          !.out_features = py_or(mlp.out_arg, mlp.in_features),
                          !.hidden_features = py_or(mlp.hidden_arg, mlp.in_features),
                          !.layers = <<>>]
    /\ UNCHANGED cloud_vars

\* lines 95-104: one iteration of `for _ in range(num_layers)`
MLP_append_unit ==
    /\ mlp.pc = "loop"
    /\ Len(mlp.layers) < mlp.num_layers
    /\ mlp' = [mlp EXCEPT !.layers = Append(@, Linear(mlp.in_cur, mlp.hidden_features)),
                          !.in_cur = mlp.hidden_features]
    /\ UNCHANGED cloud_vars

\* lines 105-109: the output projection, after the loop
MLP_fc_out ==
    /\ mlp.pc = "loop"
    /\ Len(mlp.layers) = mlp.num_layers
    /\ mlp' = [mlp EXCEPT !.pc = "built",
                          !.fc_out = IF mlp.out_features # mlp.hidden_features
                                     THEN Linear(mlp.hidden_features, mlp.out_features)
                                     ELSE NoLinear]
    /\ UNCHANGED cloud_vars

\* MLP.forward is called on a batch of rows in_features wide
MLP_forward ==
    /\ mlp.pc = "built"
    /\ mlp' = [mlp EXCEPT !.pc = "layers", !.x = mlp.in_features, !.k = 1]
    /\ UNCHANGED cloud_vars

\* Unit.forward of the k-th unit of self.layers: LayerNorm and Linear accept
\* rows of their in_features only
Unit_forward ==
    /\ mlp.pc = "layers"
    /\ mlp.k <= Len(mlp.layers)
    /\ mlp' = IF mlp.x = mlp.layers[mlp.k].in_features
              THEN [mlp EXCEPT !.x = mlp.layers[mlp.k].out_features, !.k = @ + 1]
              ELSE [mlp EXCEPT !.pc = "shape_error"]
    /\ UNCHANGED cloud_vars

\* lines 113-116: the output projection if there is one, and the return
MLP_forward_out ==
    /\ mlp.pc = "layers"
    /\ mlp.k > Len(mlp.layers)
    /\ mlp' = IF mlp.fc_out = NoLinear THEN [mlp EXCEPT !.pc = "returned"]
              ELSE IF mlp.x = mlp.fc_out.in_features
              THEN [mlp EXCEPT !.pc = "returned", !.x = mlp.fc_out.out_features]
              ELSE [mlp EXCEPT !.pc = "shape_error"]
    /\ UNCHANGED cloud_vars

NextMLP ==
    \/ MLP_defaults
    \/ MLP_append_unit
    \/ MLP_fc_out
    \/ MLP_forward
    \/ Unit_forward
    \/ MLP_forward_out

SpecMLP == InitMLP /\ [][NextMLP]_vars

----------------------------------------------------------------------------
\* Properties.

\* a step that is a call of op
CallOf(op) == ncalls' = ncalls + 1 /\ last'.op = op

Count(seq, x) == Cardinality({k \in DOMAIN seq : seq[k] = x})

\* every x of seq comes before every y of seq
AllBefore(seq, x, y) ==
    \A j, k \in DOMAIN seq : (seq[j] = x /\ seq[k] = y) => j < k

Distinct(seq) == \A j, k \in DOMAIN seq : seq[j] = seq[k] => j = k

\* index of the first predict call that returned under this job name
FirstUse(name) ==
    CHOOSE k \in DOMAIN returned_jobs :
        /\ returned_jobs[k] = name
        /\ \A j \in 1..(k - 1) : returned_jobs[j] # name

\* C1 (as stated): a fit call that directly follows a fit call that returned
\* raises the already-fit precondition error, whatever the first call's wait
\* flag and whatever became of its job (a second call refused for its own
\* arguments or stopped by a failing request is left aside: the second call
\* never returns).
C1_SecondFitAlwaysRaises ==
    [][(/\ CallOf("fit") /\ last.op = "fit" /\ last.raised = None
        /\ last'.raised \in {None, "PreconditionViolation"})
          => last'.raised = "PreconditionViolation"]_vars

\* C1 (amended): a fit call that directly follows a fit call that returned
\* raises the already-fit precondition error exactly when the first call's
\* job is Completed at that moment; it then issues no request and leaves the
\* fit job handle as it was.  After a Failed, Stopped or still running job the
\* second call is accepted.
C1_SecondFitRaisesIffCompleted ==
    [][(CallOf("fit") /\ last.op = "fit" /\ last.raised = None)
          => /\ (last'.raised = "PreconditionViolation" <=> fit_job.status = "Completed")
             /\ (fit_job.status = "Completed"
                   => last'.effects = <<>> /\ fit_job' = fit_job)]_vars

C1_Witness ==
    /\ last.op = "fit"
    /\ last.again
    /\ last.raised = "PreconditionViolation"
    /\ fit_job.status = "Completed"

\* C2: once a deploy call has returned, and until detach_endpoint or
\* cleanup_deployment is called, every further deploy call raises the
\* endpoint-already-attached precondition error and the endpoint stored by the
\* first deploy is still the attached one afterwards (a second call refused
\* for its own arguments or stopped by a failing request is left aside: the
\* second call never returns and never replaces the endpoint).
C2_SecondDeployRaises ==
    [][(/\ CallOf("deploy") /\ deployed # NoEndpoint
        /\ last'.raised \in {None, "PreconditionViolation"})
          => /\ last'.raised = "PreconditionViolation"
             /\ endpoint' = deployed]_vars

\* C3: loading the snapshot written by save gives endpoint None when no
\* endpoint was attached at save time, and otherwise an endpoint with the name
\* of the one attached at save time, obtained without a deployment request.
C3_SaveLoadEndpointRoundTrip ==
    snapshot.exists =>
        LET r == load_result(snapshot) IN
        r.raised = None =>
            IF snapshot.endpoint_at_save = None
            THEN r.loaded.endpoint = NoEndpoint
            ELSE /\ r.loaded.endpoint # NoEndpoint
                 /\ r.loaded.endpoint.name = snapshot.endpoint_at_save
                 /\ r.loaded.endpoint.session = FreshSession

\* C4: for a snapshot saved after any number of predict calls, load returns
\* and the loaded instance's session, its fit job handle's session and the
\* session of every registered transform job handle are the fresh session; the
\* registry's job names are those present at save time.
C4_LoadRebuildsSessions ==
    snapshot.exists =>
        LET r == load_result(snapshot) IN
        /\ r.raised = None
        /\ r.loaded.session = FreshSession
        /\ r.loaded.fit_session = FreshSession
        /\ r.loaded.job_names = snapshot.job_names
        /\ Len(r.loaded.job_sessions) = Len(snapshot.job_names)
        /\ \A k \in DOMAIN r.loaded.job_sessions :
              r.loaded.job_sessions[k] = FreshSession

\* C5: with an endpoint attached, predict_real_time raises the invalid-accept
\* error exactly for the accept strings outside VALID_ACCEPT, and when it does
\* it has neither loaded the test data nor called the endpoint.
C5_AcceptAllowList ==
    (last.op = "predict_real_time" /\ endpoint # NoEndpoint) =>
        /\ (last.args[1] \notin VALID_ACCEPT <=> last.raised = "InvalidArgument")
        /\ (last.raised = "InvalidArgument" => last.effects = <<>>)
        /\ (last.raised = None =>
               last.effects[Len(last.effects)] = "endpoint_predict")

C5_Witness ==
    /\ last.op = "predict_real_time"
    /\ endpoint # NoEndpoint
    /\ last.args = <<"image/png", "path">>
    /\ last.raised = "InvalidArgument"

\* C6: with no transform job registered, download_predict_results raises the
\* no-such-job error, with job_name unset and with a job_name given, and
\* neither creates a directory nor downloads.
C6_DownloadWithoutJob ==
    (last.op = "download_predict_results" /\ returned_jobs = <<>>) =>
        /\ last.raised = "NoSuchJob"
        /\ last.effects = <<>>

C6_Witness ==
    /\ last.op = "download_predict_results"
    /\ returned_jobs = <<>>
    /\ last.args = <<"jobA">>
    /\ last.raised = "NoSuchJob"

\* C7: when the predict calls that returned used pairwise distinct job names,
\* the registry's keys are exactly those names in call order, `last` is the
\* name of the most recent one, and download_predict_results and
\* get_batch_transform_job_status with job_name unset resolve to that job.
C7_RegistryInsertionOrder ==
    Distinct(returned_jobs) =>
        /\ registry_keys(batch_transform_jobs) = returned_jobs
        /\ registry_last(batch_transform_jobs) =
               (IF returned_jobs = <<>> THEN None
                ELSE returned_jobs[Len(returned_jobs)])
        /\ \A k \in DOMAIN batch_transform_jobs : batch_transform_jobs[k].id = k
        /\ (/\ last.op \in {"download_predict_results",
                            "get_batch_transform_job_status"}
            /\ last.args = <<None>>
            /\ returned_jobs # <<>>)
              => /\ last.job = returned_jobs[Len(returned_jobs)]
                 /\ last.job_id = Len(returned_jobs)

C7_Witness ==
    /\ Len(returned_jobs) = 2
    /\ Distinct(returned_jobs)
    /\ last.op = "get_batch_transform_job_status"
    /\ last.args = <<None>>
    /\ last.job = returned_jobs[2]

\* C8: every registered job name maps to the handle created by the first
\* predict call that returned under that name.
C8_KeysNeverReused ==
    \A k \in DOMAIN batch_transform_jobs :
        batch_transform_jobs[k].id = FirstUse(batch_transform_jobs[k].name)

\* C9: a fit call that submits its training job has before that issued exactly
\* one upload for train data given locally, exactly one for tuning data given
\* locally, none for data given as an S3 URL, and exactly one upload of the
\* configuration document; data given as an S3 URL is the job's input as given.
C9_FitStaging ==
    (last.op = "fit" /\ Count(last.effects, "submit_training") > 0) =>
        LET train == last.args[1]
            tune == last.args[2]
        IN  /\ Count(last.effects, "submit_training") = 1
            /\ Count(last.effects, "upload_train") = (IF train = "local" THEN 1 ELSE 0)
            /\ Count(last.effects, "upload_tune") = (IF tune = "local" THEN 1 ELSE 0)
            /\ Count(last.effects, "upload_config") = 1
            /\ \A u \in {"upload_train", "upload_tune", "upload_config"} :
                  AllBefore(last.effects, u, "submit_training")
            /\ last.raised = None =>
                  /\ (train = "s3" => <<"train", "caller/train">> \in Range(last.inputs))
                  /\ (tune = "s3" => <<"tune", "caller/tune">> \in Range(last.inputs))
                  /\ (tune = None => \A k \in DOMAIN last.inputs :
                                        last.inputs[k][1] # "tune")

C9_Witness ==
    /\ last.op = "fit"
    /\ last.raised = None
    /\ last.args[1] = "local"
    /\ last.args[2] = "local"
    /\ last.effects = <<"setup_bucket", "write_config", "upload_train",
                        "upload_tune", "upload_config", "submit_training">>

\* C10: attach_endpoint called with an endpoint attached raises the
\* endpoint-already-attached precondition error, whatever its argument, and
\* leaves that endpoint attached; called with no endpoint attached and an
\* argument that is neither a name nor an endpoint object it raises the
\* invalid-argument error and endpoint stays None.
C10_AttachAtMostOne ==
    [][CallOf("attach_endpoint")
          => /\ endpoint # NoEndpoint
                   => /\ last'.raised = "PreconditionViolation"
                      /\ endpoint' = endpoint
             /\ (endpoint = NoEndpoint /\ last'.args[1] = "other")
                   => /\ last'.raised = "InvalidArgument"
                      /\ endpoint' = NoEndpoint
             /\ (endpoint = NoEndpoint /\ last'.args[1] # "other")
                   => /\ last'.raised = None
                      /\ endpoint'.name = last'.args[2]]_vars

C10_Witness ==
    /\ last.op = "attach_endpoint"
    /\ last.args[1] = "AutoGluonRealtimePredictor"
    /\ last.raised = "PreconditionViolation"
    /\ endpoint # NoEndpoint

\* C11: detach_endpoint called with an endpoint attached returns that endpoint
\* and leaves endpoint None, changing nothing else; called with no endpoint
\* attached it raises and changes nothing.  Directly after a detach_endpoint
\* that returned, attach_endpoint with a name or an endpoint object is
\* accepted, deploy does not raise the endpoint-already-attached error, and
\* attaching the returned endpoint makes it the attached endpoint again with
\* every other field as it was.
C11_DetachInvertsAttach ==
    [][/\ CallOf("detach_endpoint") =>
             LET others == <<predictor_type, sagemaker_session, region,
                             endpoint_saved, fit_job, batch_transform_jobs>>
             IN  /\ others' = others
                 /\ endpoint # NoEndpoint =>
                       /\ last'.raised = None
                       /\ last'.ret_endpoint = endpoint
                       /\ endpoint' = NoEndpoint
                 /\ endpoint = NoEndpoint =>
                       /\ last'.raised = "PreconditionViolation"
                       /\ last'.ret_endpoint = NoEndpoint
                       /\ endpoint' = NoEndpoint
       /\ (last.op = "detach_endpoint" /\ last.raised = None) =>
             /\ endpoint = NoEndpoint
             /\ CallOf("deploy") => last'.raised # "PreconditionViolation"
             /\ (CallOf("attach_endpoint") /\ last'.args[1] # "other") =>
                   /\ last'.raised = None
                   /\ endpoint' # NoEndpoint
             /\ (/\ CallOf("attach_endpoint")
                 /\ last'.args = <<"AutoGluonRealtimePredictor",
                                   last.ret_endpoint.name,
                                   last.ret_endpoint.session>>) =>
                   /\ endpoint' = last.ret_endpoint
                   /\ UNCHANGED <<predictor_type, sagemaker_session, region,
                                  endpoint_saved, fit_job, batch_transform_jobs>>]_vars

\* deploy, detach_endpoint, attach_endpoint of the endpoint detach returned
C11_Witness ==
    /\ last.op = "attach_endpoint"
    /\ last.raised = None
    /\ last.args[1] = "AutoGluonRealtimePredictor"
    /\ last.args[3] = ModelSession
    /\ endpoint = [name |-> last.args[2], session |-> ModelSession]

\* C12: cleanup_deployment called with an endpoint attached requests the
\* deletion of the model first, then the deletion of the endpoint with its
\* configuration, and sets endpoint to None exactly when both requests
\* succeeded; called with no endpoint attached it raises the no-endpoint error
\* and issues no delete request.
C12_CleanupOrder ==
    [][CallOf("cleanup_deployment") =>
          LET eff == last'.effects IN
          /\ endpoint = NoEndpoint =>
                /\ last'.raised = "NoEndpoint"
                /\ eff = <<>>
                /\ endpoint' = NoEndpoint
          /\ endpoint # NoEndpoint =>
                /\ eff \in {<<"delete_model">>,
                            <<"delete_model", "delete_endpoint_with_config">>}
                /\ last'.raised = None =>
                      /\ eff = <<"delete_model", "delete_endpoint_with_config">>
                      /\ endpoint' = NoEndpoint
                /\ last'.raised # None =>
                      /\ last'.raised = "RemoteError"
                      /\ endpoint' = endpoint]_vars

C12_Witness ==
    /\ last.op = "cleanup_deployment"
    /\ last.raised = None
    /\ last.effects = <<"delete_model", "delete_endpoint_with_config">>
    /\ endpoint = NoEndpoint

\* C13: a training job is submitted by fit calls only; a handle whose job
\* Failed keeps that status until a fit or attach_job call, and
\* get_fit_job_status returns the handle's status without raising.  A fit call
\* raises the already-fit precondition error if and only if the handle is
\* Completed when the call is made: with a Failed, Stopped, Stopping,
\* InProgress or not yet created job it is not refused.
C13_NoAutoRetry ==
    [][/\ (ncalls' = ncalls + 1 /\ last'.op # "fit") =>
             Count(last'.effects, "submit_training") = 0
       /\ (fit_job.status = "Failed" /\ fit_job' # fit_job) =>
             (CallOf("fit") \/ CallOf("attach_job"))
       /\ CallOf("get_fit_job_status") =>
             (last'.raised = None /\ last'.ret = fit_job.status)
       /\ CallOf("fit") =>
             /\ last'.raised = "PreconditionViolation" <=> fit_job.status = "Completed"
             /\ Count(last'.effects, "submit_training") <= 1
             /\ last'.raised = None =>
                   Count(last'.effects, "submit_training") = 1]_vars

\* a fit call made on a handle whose job Failed submits a new job
C13_Witness ==
    /\ last.op = "fit"
    /\ last.before = "Failed"
    /\ last.raised = None
    /\ Count(last.effects, "submit_training") = 1

\* C14: fit on a Completed handle, deploy and attach_endpoint with an endpoint
\* attached, predict_real_time, detach_endpoint and cleanup_deployment with no
\* endpoint attached raise their precondition error; a call that raises a
\* precondition error has issued no upload, no job submission, no deployment
\* request and no delete request, and leaves the fit job handle, the registry
\* and the endpoint slot as they were.
C14_PreconditionsFirst ==
    [][/\ (CallOf("fit") /\ is_fit) => last'.raised = "PreconditionViolation"
       /\ (CallOf("deploy") /\ endpoint # NoEndpoint) =>
             last'.raised = "PreconditionViolation"
       /\ (CallOf("attach_endpoint") /\ endpoint # NoEndpoint) =>
             last'.raised = "PreconditionViolation"
       /\ (CallOf("predict_real_time") /\ endpoint = NoEndpoint) =>
             last'.raised = "PreconditionViolation"
       /\ (CallOf("detach_endpoint") /\ endpoint = NoEndpoint) =>
             last'.raised = "PreconditionViolation"
       /\ (CallOf("cleanup_deployment") /\ endpoint = NoEndpoint) =>
             last'.raised = "NoEndpoint"
       /\ (/\ ncalls' = ncalls + 1
           /\ last'.raised \in {"PreconditionViolation", "NoEndpoint"}) =>
             /\ last'.effects = <<>>
             /\ fit_job' = fit_job
             /\ batch_transform_jobs' = batch_transform_jobs
             /\ endpoint' = endpoint]_vars

\* deploy of a local tarball refused while an endpoint is attached
C14_Witness ==
    /\ last.op = "deploy"
    /\ last.args[1] = "tarball"
    /\ last.raised = "PreconditionViolation"
    /\ last.effects = <<>>
    /\ endpoint # NoEndpoint

\* C15: deploy and predict called without predictor_path while the fit job
\* handle has no output location raise (the no-trained-model error, or for
\* deploy the endpoint-already-attached error when an endpoint is attached),
\* issue no upload and no deployment or transform request, and leave the
\* endpoint slot and the registry as they were.
C15_FailClosedWithoutArtifact ==
    [][(/\ CallOf("deploy") \/ CallOf("predict")
        /\ last'.args[1] = None
        /\ get_output_path(fit_job) = None) =>
          /\ last'.raised =
                (IF last'.op = "deploy" /\ endpoint # NoEndpoint
                 THEN "PreconditionViolation" ELSE "NoTrainedModel")
          /\ last'.effects = <<>>
          /\ endpoint' = endpoint
          /\ batch_transform_jobs' = batch_transform_jobs
          /\ returned_jobs' = returned_jobs]_vars

\* deploy without predictor_path after a training job that Failed
C15_Witness ==
    /\ last.op = "deploy"
    /\ last.args[1] = None
    /\ last.raised = "NoTrainedModel"
    /\ fit_job.status = "Failed"
    /\ endpoint = NoEndpoint

\* C16: download_trained_predictor called while the fit job handle is not
\* Completed raises the no-trained-model error and attempts no download and no
\* local write; called on a Completed handle it downloads the training output
\* archive and, unless the download fails, unpacks it and returns the path of
\* the model directory under the save path.
C16_DownloadRequiresCompletedFit ==
    [][CallOf("download_trained_predictor") =>
          /\ ~is_fit =>
                /\ last'.raised = "NoTrainedModel"
                /\ last'.effects = <<>>
          /\ is_fit =>
                /\ last'.raised \in {None, "IOFailure"}
                /\ last'.effects[1] = "download"
                /\ last'.raised = None =>
                      /\ last'.effects = <<"download", "unzip">>
                      /\ last'.ret = "save_path/AutogluonModels"]_vars

\* C17: a predict call leaves the endpoint slot and the fit job handle as they
\* were and never raises a no-endpoint error; the registry changes only in a
\* call that returned, which has submitted exactly one transform job as its
\* last request and has the new handle registered under the job's name; a call
\* that raised, at submission or before, leaves the registry as it was.
\* get_batch_transform_job_status never raises: it returns the status of the
\* job it resolves (Failed for a job that failed) and 'NotCreated' when the
\* registry is empty or the name is not registered.
C17_PredictRegistersAfterSubmit ==
    [][/\ CallOf("predict") =>
             /\ endpoint' = endpoint
             /\ fit_job' = fit_job
             /\ last'.raised \notin {"PreconditionViolation", "NoEndpoint"}
             /\ last'.raised # None =>
                   batch_transform_jobs' = batch_transform_jobs
             /\ last'.raised = None =>
                   /\ Count(last'.effects, "submit_transform") = 1
                   /\ last'.effects[Len(last'.effects)] = "submit_transform"
                   /\ registry_get(batch_transform_jobs', last'.job).id = last'.job_id
                   /\ last'.job_id = Len(returned_jobs')
       /\ CallOf("get_batch_transform_job_status") =>
             LET name == resolve_job(last'.args[1])
                 known == name \in Range(registry_keys(batch_transform_jobs))
             IN  /\ last'.raised = None
                 /\ ~known => last'.ret = "NotCreated"
                 /\ known =>
                       last'.ret = registry_get(batch_transform_jobs, name).status]_vars

\* with no endpoint attached, a blocking predict whose job Failed, then a
\* status query for that job
C17_Witness ==
    /\ last.op = "get_batch_transform_job_status"
    /\ last.ret = "Failed"
    /\ last.job \in Range(returned_jobs)
    /\ endpoint = NoEndpoint
    /\ deployed = NoEndpoint

\* C18: once the fit job handle is Completed it stays Completed, whatever is
\* called afterwards, so that every later fit call is refused.
C18_IsFitMonotone ==
    [][is_fit => (is_fit' /\ (CallOf("fit") => last'.raised = "PreconditionViolation"))]_vars

\* C19: when a save call ends, by returning or by raising from the snapshot
\* write, the instance's session, region and endpoint are what they were
\* before the call.
C19_SaveLeavesInstanceUnchanged ==
    [][CallOf("save") =>
          /\ sagemaker_session' = sagemaker_session
          /\ region' = region
          /\ endpoint' = endpoint]_vars

\* C20: after a save call that returned the instance's _endpoint_saved is
\* empty (unset or None); a load of the snapshot that returns gives an
\* instance whose _endpoint_saved is empty and which has an endpoint if and
\* only if one was attached when the snapshot was written, with that
\* endpoint's name.
C20_SavedMarkerNeverStale ==
    /\ (last.op = "save" /\ last.raised = None) =>
          endpoint_saved \in {Absent, None}
    /\ snapshot.exists =>
          LET r == load_result(snapshot) IN
          r.raised = None =>
             /\ r.loaded.endpoint_saved \in {Absent, None}
             /\ r.loaded.endpoint # NoEndpoint <=> snapshot.endpoint_at_save # None
             /\ r.loaded.endpoint # NoEndpoint =>
                   r.loaded.endpoint.name = snapshot.endpoint_at_save

\* C21: a deploy call that uploaded a local predictor tarball and returned
\* used a key prefix endpoints/<name>/predictor whose <name> is the name of the
\* endpoint the call deployed and stored, with endpoint_name supplied and with
\* endpoint_name unset.
C21_PrefixNamesEndpoint ==
    (/\ last.op = "deploy"
     /\ last.raised = None
     /\ Count(last.effects, "upload_predictor") = 1) =>
        /\ endpoint # NoEndpoint
        /\ last.prefix = endpoint.name

\* the stages of a built MLP in forward order: its units, then fc_out if any
MLPStages ==
    mlp.layers \o (IF mlp.fc_out = NoLinear THEN <<>> ELSE <<mlp.fc_out>>)

\* C22: in an MLP built with in_features >= 1 and num_layers >= 0, a hidden
\* or output dimension that was not provided is the input dimension; there are
\* num_layers units, the first taking in_features and every later one
\* hidden_features, each producing hidden_features; fc_out exists exactly when
\* out_features differs from hidden_features and maps hidden_features to
\* out_features; the first stage takes rows in_features wide and every later
\* stage takes the width the stage before it produces; the last stage (or,
\* with no stage, the input) is out_features wide, so that a forward pass
\* raises no shape error and returns rows out_features wide.
C22_MLPWidthsChain ==
    /\ mlp.pc \in {"built", "layers", "returned", "shape_error"} =>
          LET st == MLPStages IN
          /\ (mlp.hidden_arg = NotProvided => mlp.hidden_features = mlp.in_features)
          /\ (mlp.hidden_arg # NotProvided => mlp.hidden_features = mlp.hidden_arg)
          /\ (mlp.out_arg = NotProvided => mlp.out_features = mlp.in_features)
          /\ (mlp.out_arg # NotProvided => mlp.out_features = mlp.out_arg)
          /\ Len(mlp.layers) = mlp.num_layers
          /\ \A k \in DOMAIN mlp.layers :
                /\ mlp.layers[k].in_features =
                      (IF k = 1 THEN mlp.in_features ELSE mlp.hidden_features)
                /\ mlp.layers[k].out_features = mlp.hidden_features
          /\ (mlp.fc_out # NoLinear <=> mlp.out_features # mlp.hidden_features)
          /\ (mlp.fc_out # NoLinear =>
                 mlp.fc_out = Linear(mlp.hidden_features, mlp.out_features))
          /\ \A k \in DOMAIN st :
                st[k].in_features =
                   (IF k = 1 THEN mlp.in_features ELSE st[k - 1].out_features)
          /\ (IF st = <<>> THEN mlp.in_features ELSE st[Len(st)].out_features)
                 = mlp.out_features
    /\ mlp.pc # "shape_error"
    /\ mlp.pc = "returned" => mlp.x = mlp.out_features

====
